---- MODULE Spec2Model ----
(***************************************************************************)
(* Survey CSV + Trimble feature library (FXL) to DXF: the resolution       *)
(* pipeline of XML_to_DXF.py (get_codes, process_code, get_survey,         *)
(* get_layer_from_pcode and the __main__ driver).                          *)
(*                                                                         *)
(* Representation.  A Python str that the program takes apart (a survey    *)
(* code token, a point code) is a sequence of one-character strings, so    *)
(* the regular expression and int() are computed character by character.   *)
(* Layer names are TLA+ strings; "attrib_" + layer is \o.  Python's None   *)
(* is the empty tuple, an int n in a place that may hold None is <<n>>.    *)
(* Coordinates and attribute columns of a survey row are carried through   *)
(* get_survey verbatim and are not modelled; a row is its position in the  *)
(* file and the text of its Point_code column.  Library documents are      *)
(* valid ones: every feature definition carries a Code and a Layer.        *)
(* Tokens are ASCII text without a line break (the one place where $ and   *)
(* the end of the string differ).  The parsed document fxl is local to     *)
(* get_codes; it is kept until __main__ has taken the key lists.           *)
(* The layer loop of create_dxf (lines 359-367) is studied on its own:     *)
(* doc_layers records the calls doc.layers.add(name, color=...) it makes,  *)
(* and a for loop over a set visits its elements in an order the program   *)
(* does not choose.  Every LayerDefinition carries a Color.                *)
(***************************************************************************)
EXTENDS Integers, Sequences, FiniteSets, TLC

VARIABLES
    pc,               \* position of the run (__main__) or of the function under study
    fxl,              \* get_codes: the feature definitions iterated over, in document order
    point_code_dict,  \* get_codes: point_code_dict_ref  (code -> attrib)
    line_code_dict,   \* get_codes: line_code_dict_ref   (code -> attrib)
    code_layer_map,   \* get_codes: code_layer_map_ref   (code -> Layer)
    point_codes,      \* __main__: list(point_code_dict.keys())
    line_codes,       \* __main__: list(line_code_dict.keys())
    csv_rows,         \* rows the csv reader has yielded so far, in file order
    all_pts_map,      \* get_survey: point_type -> code -> sequence -> list of row_dict
    needed_pcodes,    \* the global registry of needed codes
    survey,           \* __main__: what get_survey returned
    needed_layers,    \* __main__: what get_layer_from_pcode returned
    called,           \* the functions __main__ has invoked, in order
    output,           \* "none", or "saved" once doc.saveas has written the DXF
    uncaught,         \* "" or the exception that ended the run with a traceback
    input_string,     \* process_code: its first argument
    ret,              \* process_code: the tuple it returned
    layers,           \* __main__: what get_layers returned (layer name -> properties)
    layer_color,      \* create_dxf: the local of that name
    doc_layers,       \* create_dxf: layer name -> color of the doc.layers.add calls made
    unvisited         \* create_dxf: elements of needed_layers the for loop has yet to visit

vars == <<pc, fxl, point_code_dict, line_code_dict, code_layer_map, point_codes,
          line_codes, csv_rows, all_pts_map, needed_pcodes, survey, needed_layers,
          called, output, uncaught, input_string, ret,
          layers, layer_color, doc_layers, unvisited>>

\* the state of the layer loop of create_dxf
dxf_vars == <<layers, layer_color, doc_layers, unvisited>>

(***************************************************************************)
(* Bounds of the model.                                                    *)
(***************************************************************************)
MaxTokenLen == 4     \* longest token handed to process_code on its own
MaxFeatures == 2     \* feature definitions in a library document
MaxRows == 3         \* rows in a survey file
MaxPcodes == 3       \* length of a code list handed to get_layer_from_pcode on its own
MaxLayers == 2       \* layers the needed codes resolve to, in the layer loop on its own

None == << >>
Some(n) == <<n>>

(***************************************************************************)
(* Characters and the classes of the pattern.                              *)
(***************************************************************************)
LowerCase == {"a","b","c","d","e","f","g","h","i","j","k","l","m",
              "n","o","p","q","r","s","t","u","v","w","x","y","z"}
UpperCase == {"A","B","C","D","E","F","G","H","I","J","K","L","M",
              "N","O","P","Q","R","S","T","U","V","W","X","Y","Z"}
Digit == {"0","1","2","3","4","5","6","7","8","9"}

\* [a-zA-Z]
Letter == LowerCase \cup UpperCase
IsLetter(c) == c \in Letter
\* [a-z_A-Z0-9]
Word == LowerCase \cup {"_"} \cup UpperCase \cup Digit
IsWord(c) == c \in Word
\* \d
IsDigit(c) == c \in Digit

DigitValue(c) ==
    CASE c = "0" -> 0 [] c = "1" -> 1 [] c = "2" -> 2 [] c = "3" -> 3 [] c = "4" -> 4
      [] c = "5" -> 5 [] c = "6" -> 6 [] c = "7" -> 7 [] c = "8" -> 8 [] c = "9" -> 9

\* int() that forgets the carry: only the last digit counts
int_last_digit(s) == DigitValue(s[Len(s)])

\* int(s) for a non-empty string of decimal digits
RECURSIVE int(_)
int(s) ==
    IF s = << >> THEN 0
    ELSE 10 * int(SubSeq(s, 1, Len(s) - 1)) + DigitValue(s[Len(s)])

\* str(n) for an integer, as Python's f"{n}" writes it
RECURSIVE str(_)
str(n) ==
    IF n < 0 THEN <<"-">> \o str(0 - n)
    ELSE LET d == CHOOSE c \in Digit : DigitValue(c) = n % 10
         IN  IF n < 10 THEN <<d>> ELSE str(n \div 10) \o <<d>>

\* f"{x}" where x is None or an int
format(x) == IF x = None THEN <<"N","o","n","e">> ELSE str(x[1])

(***************************************************************************)
(* re.match(r"([a-zA-Z]+[a-z_A-Z0-9]*[a-zA-Z])(\d+)?$", input_string)      *)
(*                                                                         *)
(* A way to match is a pair <<i, k>>: [a-zA-Z]+ takes s[1..i],             *)
(* [a-z_A-Z0-9]* takes s[i+1..k-1], the closing [a-zA-Z] takes s[k], and   *)
(* (\d+)? takes either nothing (k is the end) or all of s[k+1..].  The     *)
(* engine is greedy and backtracks: of the ways to match it reports the    *)
(* one with the largest i, then the largest k.                             *)
(***************************************************************************)
MatchWays(s) ==
    { w \in (1..Len(s)) \X (1..Len(s)) :
        /\ w[1] < w[2]
        /\ \A n \in 1..w[1] : IsLetter(s[n])
        /\ \A n \in (w[1] + 1)..(w[2] - 1) : IsWord(s[n])
        /\ IsLetter(s[w[2]])
        /\ \A n \in (w[2] + 1)..Len(s) : IsDigit(s[n]) }

re_match(s) ==
    LET ways == MatchWays(s)
    IN  IF ways = {} THEN [matched |-> FALSE, group1 |-> None, group2 |-> None]
        ELSE LET w == CHOOSE w \in ways :
                         \A v \in ways : \/ v[1] < w[1]
                                         \/ v[1] = w[1] /\ v[2] <= w[2]
             IN  [matched |-> TRUE,
                  group1  |-> SubSeq(s, 1, w[2]),
                  group2  |-> IF w[2] = Len(s) THEN None
                              ELSE SubSeq(s, w[2] + 1, Len(s))]

sprl == <<"s","p","r","l">>

(***************************************************************************)
(* process_code: the locals as they stand at line 204, then the return.    *)
(***************************************************************************)
\* process_code with the -1 default tied to the kind instead of to the line table
process_code_locals_by_kind(s, line_codes_ref, point_codes_ref) ==
    LET match == re_match(s)
        code  == match.group1
        kind  == IF code \in point_codes_ref THEN "Point"
                 ELSE IF code \in line_codes_ref THEN "Line"
                 ELSE "Unknown"
    IN  IF match.matched
        THEN [code |-> code,
              found |-> (code \in line_codes_ref) \/ (code \in point_codes_ref),
              point_type |-> kind,
              differentiator |-> IF match.group2 # None THEN Some(int(match.group2))
                                 ELSE IF kind = "Line" THEN Some(-1)
                                 ELSE None]
        ELSE [code |-> None, found |-> FALSE, point_type |-> "Unknown",
              differentiator |-> None]

\* process_code with the two membership tests swapped: the line table is asked last
process_code_locals_line_last(s, line_codes_ref, point_codes_ref) ==
    LET match == re_match(s)
        code  == match.group1
    IN  IF match.matched
        THEN [code |-> code,
              found |-> (code \in line_codes_ref) \/ (code \in point_codes_ref),
              point_type |-> IF code \in line_codes_ref THEN "Line"
                             ELSE IF code \in point_codes_ref THEN "Point"
                             ELSE "Unknown",
              differentiator |-> IF match.group2 # None THEN Some(int(match.group2))
                                 ELSE IF code \in line_codes_ref THEN Some(-1)
                                 ELSE None]
        ELSE [code |-> None, found |-> FALSE, point_type |-> "Unknown",
              differentiator |-> None]

process_code_locals(s, line_codes_ref, point_codes_ref) ==
    LET match == re_match(s)
        code  == match.group1
    IN  IF match.matched
        THEN [code |-> code,
              found |-> (code \in line_codes_ref) \/ (code \in point_codes_ref),
              point_type |-> IF code \in point_codes_ref THEN "Point"
                             ELSE IF code \in line_codes_ref THEN "Line"
                             ELSE "Unknown",
              differentiator |-> IF match.group2 # None THEN Some(int(match.group2))
                                 ELSE IF code \in line_codes_ref THEN Some(-1)
                                 ELSE None]
        ELSE [code |-> None, found |-> FALSE, point_type |-> "Unknown",
              differentiator |-> None]

\* process_code handing back the raw base code of a code it did not find
process_code_raw_code(s, line_codes_ref, point_codes_ref) ==
    LET l == process_code_locals(s, line_codes_ref, point_codes_ref)
    IN  IF l.code # None
        THEN [success |-> l.found, pcode |-> l.code, sequence |-> l.differentiator,
              point_type |-> l.point_type]
        ELSE [success |-> FALSE, pcode |-> sprl, sequence |-> Some(1),
              point_type |-> l.point_type]

process_code(s, line_codes_ref, point_codes_ref) ==
    LET l == process_code_locals(s, line_codes_ref, point_codes_ref)
    IN  IF l.code # None /\ l.found
        THEN [success |-> TRUE, pcode |-> l.code, sequence |-> l.differentiator,
              point_type |-> l.point_type]
        ELSE [success |-> FALSE, pcode |-> sprl, sequence |-> Some(1),
              point_type |-> l.point_type]

(***************************************************************************)
(* Python containers.                                                      *)
(***************************************************************************)
EmptyDict == << >>
EmptyList == << >>

\* d.setdefault(k, v), as the dict it leaves behind
setdefault(d, k, v) == IF k \in DOMAIN d THEN d ELSE d @@ (k :> v)

\* the elements of a list, as a set
Range(list) == { list[n] : n \in DOMAIN list }

(***************************************************************************)
(* get_codes: one FeatureDefinitions child at a time.                      *)
(***************************************************************************)
get_codes_point(d, gchild) ==
    IF gchild.tag = "PointFeatureDefinition"
    THEN [point |-> setdefault(d.point, gchild.attrib.Code, gchild.attrib),
          line  |-> d.line,
          layer |-> setdefault(d.layer, gchild.attrib.Code, gchild.attrib.Layer)]
    ELSE d

\* the line branch with code_layer_map_ref[line_code] = ... instead of setdefault
get_codes_line_overwrite(d, gchild) ==
    IF gchild.tag = "LineFeatureDefinition"
    THEN [point |-> d.point,
          line  |-> setdefault(d.line, gchild.attrib.Code, gchild.attrib),
          layer |-> (gchild.attrib.Code :> gchild.attrib.Layer) @@ d.layer]
    ELSE d

get_codes_line(d, gchild) ==
    IF gchild.tag = "LineFeatureDefinition"
    THEN [point |-> d.point,
          line  |-> setdefault(d.line, gchild.attrib.Code, gchild.attrib),
          layer |-> setdefault(d.layer, gchild.attrib.Code, gchild.attrib.Layer)]
    ELSE d

get_codes_gchild(d, gchild) == get_codes_line(get_codes_point(d, gchild), gchild)

(***************************************************************************)
(* get_survey: the body of the row loop.                                   *)
(***************************************************************************)
\* the bucket update with insert(0, row_dict) instead of append(row_dict)
bucket_prepend(m, point_type, code, sequence, row_dict) ==
    LET by_code == setdefault(m[point_type], code, EmptyDict)
        by_seq  == setdefault(by_code[code], sequence, EmptyList)
    IN  [m EXCEPT ![point_type] =
            [by_code EXCEPT ![code] =
                [by_seq EXCEPT ![sequence] = <<row_dict>> \o @]]]

\* all_pts_map[point_type].setdefault(code, {}).setdefault(sequence, []).append(row_dict)
bucket_append(m, point_type, code, sequence, row_dict) ==
    LET by_code == setdefault(m[point_type], code, EmptyDict)
        by_seq  == setdefault(by_code[code], sequence, EmptyList)
    IN  [m EXCEPT ![point_type] =
            [by_code EXCEPT ![code] =
                [by_seq EXCEPT ![sequence] = Append(@, row_dict)]]]

\* the registration without the membership test
register_pcode_unchecked(registry, pcode) == Append(registry, pcode)

\* if pcode not in needed_pcodes: needed_pcodes.append(pcode)
register_pcode(registry, pcode) ==
    IF pcode \in Range(registry) THEN registry ELSE Append(registry, pcode)

\* the row_dict of a row that carries a code, as it is stored
make_row_dict(row, r) ==
    [PointNumber |-> row.PointNumber, Point_code |-> r.pcode, Sequence |-> format(r.sequence)]

(***************************************************************************)
(* get_layer_from_pcode                                                    *)
(***************************************************************************)
\* the loop with an unmapped code skipped instead of sent to "Spare"
RECURSIVE add_needed_layers_no_fallback(_, _, _)
add_needed_layers_no_fallback(layers_so_far, pcode_list, code_layer_map_ref) ==
    IF pcode_list = << >> THEN layers_so_far
    ELSE LET pcode == Head(pcode_list)
             added ==
                IF pcode \in DOMAIN code_layer_map_ref
                THEN LET layer == code_layer_map_ref[pcode]
                     IN  {layer, "attrib_" \o layer, "points_" \o layer}
                ELSE {}
         IN  add_needed_layers_no_fallback(layers_so_far \cup added, Tail(pcode_list),
                                           code_layer_map_ref)

\* lines 417-426: the loop over pcode_list
RECURSIVE add_needed_layers(_, _, _)
add_needed_layers(layers_so_far, pcode_list, code_layer_map_ref) ==
    IF pcode_list = << >> THEN layers_so_far
    ELSE LET pcode == Head(pcode_list)
             added ==
                IF pcode \in DOMAIN code_layer_map_ref
                THEN LET layer == code_layer_map_ref[pcode]
                     IN  {layer, "attrib_" \o layer, "points_" \o layer}
                ELSE {"Spare", "attrib_Spare", "points_Spare"}
         IN  add_needed_layers(layers_so_far \cup added, Tail(pcode_list), code_layer_map_ref)

\* the function without line 416
get_layer_from_pcode_no_base(pcode_list, code_layer_map_ref) ==
    add_needed_layers({}, pcode_list, code_layer_map_ref)

get_layer_from_pcode(pcode_list, code_layer_map_ref) ==
    add_needed_layers({"Points"}, pcode_list, code_layer_map_ref)

(***************************************************************************)
(* create_dxf: the layer loop, lines 359-367.                              *)
(***************************************************************************)
\* a Python value that is an int or a str
py_int(n) == [type |-> "int", value |-> n]
py_str(t) == [type |-> "str", value |-> t]

\* int(v) for an int or a str of decimal digits
int_value(v) == IF v.type = "int" THEN v.value ELSE int(v.value)

MAP_RGB_TO_CAD ==
    ("FF804000" :> <<"3","6">>) @@ ("FFD3D3D3" :> <<"2","5","4">>) @@
    ("FFFFFF00" :> <<"2">>) @@ ("FF008000" :> <<"9","6">>) @@
    ("FF0080FF" :> <<"1","5","0">>) @@ ("FFFF7F00" :> <<"3","0">>) @@
    ("FFFF003F" :> <<"2","4","0">>) @@ ("FF000040" :> <<"1","7","8">>) @@
    ("FFFFA500" :> <<"4","0">>) @@ ("FFADADAD" :> <<"2","5","3">>) @@
    ("FFFF00FF" :> <<"6">>) @@ ("FF3F00FF" :> <<"1","8","0">>) @@
    ("FF800080" :> <<"2","1","6">>) @@ ("FF0000A0" :> <<"1","7","4">>) @@
    ("FF0000FF" :> <<"5">>) @@ ("FF003FFF" :> <<"1","6","0">>) @@
    ("FF009926" :> <<"1","0","4">>) @@ ("FF00FF00" :> <<"3">>) @@
    ("FFFF0000" :> <<"1">>) @@ ("FFFFFFFF" :> <<"7">>)

\* MAP_RGB_TO_CAD.get(key, default)
MAP_RGB_TO_CAD_get(key, default) ==
    IF key \in DOMAIN MAP_RGB_TO_CAD THEN py_str(MAP_RGB_TO_CAD[key]) ELSE default

\* lines 361-365: layer_color after the if/else of one iteration
next_layer_color(layer, layers_ref, color) ==
    IF layer \in DOMAIN layers_ref
    THEN IF layer \notin {"0", "Points"}
         THEN MAP_RGB_TO_CAD_get(layers_ref[layer].Color, py_int(7))
         ELSE color
    ELSE py_int(7)

\* lines 356-358: the layers create_dxf adds before the loop
annotation_layers == ("Point Code" :> 1) @@ ("Point Height" :> 5) @@ ("Point Number" :> 3)

(***************************************************************************)
(* Inputs.                                                                 *)
(***************************************************************************)
kb == <<"k","b">>
kb3 == <<"k","b","3">>
xyz123 == <<"x","y","z","1","2","3">>
sprl1 == <<"s","p","r","l","1">>

\* feature definitions a library document is made of
Features ==
    [tag : {"PointFeatureDefinition", "LineFeatureDefinition"},
     attrib : [Code : {kb}, Layer : {"Kerb", "Marks"}]]
    \cup {[tag |-> "LineFeatureDefinition", attrib |-> [Code |-> sprl, Layer |-> "Marks"]],
          [tag |-> "PolygonFeatureDefinition", attrib |-> [Code |-> kb, Layer |-> "Marks"]]}

\* texts of the Point_code column; the empty one is a row without a code
SurveyTokens == { << >>, kb, kb3, xyz123, sprl1, <<"7">> }

\* characters of the tokens handed to process_code on its own
Alphabet == {"k", "b", "_", "0", "3", "-"}
Tokens == UNION { [1..n -> Alphabet] : n \in 0..MaxTokenLen }
TableCodes == { kb, <<"b">>, <<"k","_","b">> }

\* code lists and code -> layer maps handed to get_layer_from_pcode on its own
ListCodes == { kb, sprl, <<"b","m">> }
ListLayers == { "Kerb", "Spare", "attrib_Kerb" }
PcodeLists == UNION { [1..n -> ListCodes] : n \in 0..MaxPcodes }
LayerMaps == UNION { [D -> ListLayers] : D \in SUBSET ListCodes }

\* layer tables and needed-layer sets handed to the layer loop on its own
TableLayers == { "Kerb", "0", "Points" }
ColorKeys == { "FFFF0000", "FF0000FF", "FF123456" }
LayerTables == UNION { [D -> [Color : ColorKeys]] : D \in SUBSET TableLayers }
ResolvedLayers == { "Kerb", "Marks", "0" }
NeededLayerSets ==
    { {"Points"} \cup UNION { {layer, "attrib_" \o layer, "points_" \o layer} : layer \in S } :
        S \in { T \in SUBSET ResolvedLayers : Cardinality(T) <= MaxLayers } }

(***************************************************************************)
(* The run of __main__, from line 507 on.                                  *)
(***************************************************************************)
Call(f) == pc' = f /\ called' = Append(called, f)

Idle ==
    /\ fxl = << >> /\ point_code_dict = EmptyDict /\ line_code_dict = EmptyDict
    /\ csv_rows = << >> /\ all_pts_map = None /\ survey = None
    /\ needed_layers = {} /\ output = "none" /\ uncaught = ""
    /\ ret = None
    /\ layers = EmptyDict /\ layer_color = py_int(7)
    /\ doc_layers = EmptyDict /\ unvisited = {}

Init ==
    /\ Idle
    /\ pc = "get_codes" /\ called = <<"get_codes">>
    /\ code_layer_map = EmptyDict
    /\ point_codes = {} /\ line_codes = {}
    /\ needed_pcodes = << >>
    /\ input_string = << >>

\* get_codes, lines 229-237: the next child of FeatureDefinitions
get_codes_feature(gchild) ==
    /\ pc = "get_codes"
    /\ Len(fxl) < MaxFeatures
    /\ LET d == get_codes_gchild([point |-> point_code_dict, line |-> line_code_dict,
                                  layer |-> code_layer_map], gchild)
       IN  /\ point_code_dict' = d.point
           /\ line_code_dict' = d.line
           /\ code_layer_map' = d.layer
    /\ fxl' = Append(fxl, gchild)
    /\ UNCHANGED <<pc, point_codes, line_codes, csv_rows, all_pts_map, needed_pcodes,
                   survey, needed_layers, called, output, uncaught, input_string, ret>>
    /\ UNCHANGED dxf_vars

\* get_codes returns its three dicts (line 238)
get_codes_return ==
    /\ pc = "get_codes"
    /\ pc' = "get_codes_returned"
    /\ UNCHANGED <<fxl, point_code_dict, line_code_dict, code_layer_map, point_codes,
                   line_codes, csv_rows, all_pts_map, needed_pcodes, survey,
                   needed_layers, called, output, uncaught, input_string, ret>>
    /\ UNCHANGED dxf_vars

\* __main__ lines 511-515: the key lists; the parsed document is out of scope
list_codes ==
    /\ pc = "get_codes_returned"
    /\ point_codes' = DOMAIN point_code_dict
    /\ line_codes' = DOMAIN line_code_dict
    /\ fxl' = << >>
    /\ Call("get_survey")
    /\ UNCHANGED <<point_code_dict, line_code_dict, code_layer_map, csv_rows,
                   all_pts_map, needed_pcodes, survey, needed_layers, output, uncaught,
                   input_string, ret>>
    /\ UNCHANGED dxf_vars

\* get_survey, lines 246-250 and 276-281: open() succeeds or raises
get_survey_open(outcome) ==
    /\ pc = "get_survey"
    /\ IF outcome = "opened"
       THEN /\ all_pts_map' = [Line |-> EmptyDict, Point |-> EmptyDict, Unknown |-> EmptyDict]
            /\ pc' = "get_survey_rows"
            /\ UNCHANGED <<survey, called>>
       ELSE /\ survey' = None
            /\ Call("set_dxf_view")
            /\ UNCHANGED all_pts_map
    /\ UNCHANGED <<fxl, point_code_dict, line_code_dict, code_layer_map, point_codes,
                   line_codes, csv_rows, needed_pcodes, needed_layers, output, uncaught,
                   input_string, ret>>
    /\ UNCHANGED dxf_vars

\* get_survey, lines 251-274: one row of the reader
get_survey_row(token) ==
    /\ pc = "get_survey_rows"
    /\ Len(csv_rows) < MaxRows
    /\ LET row == [PointNumber |-> Len(csv_rows) + 1, Point_code |-> token]
           r   == process_code(token, line_codes, point_codes)
       IN  /\ csv_rows' = Append(csv_rows, row)
           /\ IF token # << >>
              THEN /\ needed_pcodes' = register_pcode(needed_pcodes, r.pcode)
                   /\ all_pts_map' = bucket_append(all_pts_map, r.point_type, r.pcode,
                                                   r.sequence, make_row_dict(row, r))
              ELSE UNCHANGED <<needed_pcodes, all_pts_map>>
    /\ UNCHANGED <<pc, fxl, point_code_dict, line_code_dict, code_layer_map, point_codes,
                   line_codes, survey, needed_layers, called, output, uncaught,
                   input_string, ret>>
    /\ UNCHANGED dxf_vars

\* get_survey returns all_pts_map (line 275); __main__ line 518
get_survey_return ==
    /\ pc = "get_survey_rows"
    /\ survey' = all_pts_map
    /\ Call("set_dxf_view")
    /\ UNCHANGED <<fxl, point_code_dict, line_code_dict, code_layer_map, point_codes,
                   line_codes, csv_rows, all_pts_map, needed_pcodes, needed_layers,
                   output, uncaught, input_string, ret>>
    /\ UNCHANGED dxf_vars

\* set_dxf_view(survey), lines 430-461: survey_ref['Line'] on None is a TypeError
set_dxf_view ==
    /\ pc = "set_dxf_view"
    /\ IF survey = None
       THEN /\ uncaught' = "TypeError"
            /\ pc' = "exit"
            /\ UNCHANGED called
       ELSE /\ Call("get_layer_from_pcode")
            /\ UNCHANGED uncaught
    /\ UNCHANGED <<fxl, point_code_dict, line_code_dict, code_layer_map, point_codes,
                   line_codes, csv_rows, all_pts_map, needed_pcodes, survey,
                   needed_layers, output, input_string, ret>>
    /\ UNCHANGED dxf_vars

\* __main__ line 522
resolve_layers ==
    /\ pc = "get_layer_from_pcode"
    /\ needed_layers' = get_layer_from_pcode(needed_pcodes, code_layer_map)
    /\ Call("create_dxf")
    /\ UNCHANGED <<fxl, point_code_dict, line_code_dict, code_layer_map, point_codes,
                   line_codes, csv_rows, all_pts_map, needed_pcodes, survey, output,
                   uncaught, input_string, ret>>
    /\ UNCHANGED dxf_vars

\* create_dxf, lines 371-411: line_codes_dict[point_code] for the Line and the
\* Unknown codes, point_codes_dict[point_code] for the Point codes, then saveas
\* (the layer loop before them raises nothing and is studied on its own below)
create_dxf ==
    /\ pc = "create_dxf"
    /\ IF /\ DOMAIN survey.Line \subseteq DOMAIN line_code_dict
          /\ DOMAIN survey.Unknown \subseteq DOMAIN line_code_dict
          /\ DOMAIN survey.Point \subseteq DOMAIN point_code_dict
       THEN output' = "saved" /\ UNCHANGED uncaught
       ELSE uncaught' = "KeyError" /\ UNCHANGED output
    /\ pc' = "exit"
    /\ UNCHANGED <<fxl, point_code_dict, line_code_dict, code_layer_map, point_codes,
                   line_codes, csv_rows, all_pts_map, needed_pcodes, survey,
                   needed_layers, called, input_string, ret>>
    /\ UNCHANGED dxf_vars

Next ==
    \/ \E gchild \in Features : get_codes_feature(gchild)
    \/ get_codes_return
    \/ list_codes
    \/ \E outcome \in {"opened", "FileNotFoundError", "PermissionError"} :
          get_survey_open(outcome)
    \/ \E token \in SurveyTokens : get_survey_row(token)
    \/ get_survey_return
    \/ set_dxf_view
    \/ resolve_layers
    \/ create_dxf

Spec == Init /\ [][Next]_vars

(***************************************************************************)
(* process_code on its own: any token, any pair of code tables.            *)
(***************************************************************************)
InitClassify ==
    /\ Idle
    /\ pc = "process_code" /\ called = << >>
    /\ code_layer_map = EmptyDict /\ needed_pcodes = << >>
    /\ input_string \in Tokens
    /\ line_codes \in SUBSET TableCodes
    /\ point_codes \in SUBSET TableCodes

classify ==
    /\ pc = "process_code"
    /\ ret' = process_code(input_string, line_codes, point_codes)
    /\ pc' = "returned"
    /\ UNCHANGED <<fxl, point_code_dict, line_code_dict, code_layer_map, point_codes,
                   line_codes, csv_rows, all_pts_map, needed_pcodes, survey,
                   needed_layers, called, output, uncaught, input_string>>
    /\ UNCHANGED dxf_vars

SpecClassify == InitClassify /\ [][classify]_vars

(***************************************************************************)
(* get_layer_from_pcode on its own: any code list, any code -> layer map.  *)
(***************************************************************************)
InitLayers ==
    /\ Idle
    /\ pc = "get_layer_from_pcode" /\ called = << >>
    /\ point_codes = {} /\ line_codes = {}
    /\ input_string = << >>
    /\ needed_pcodes \in PcodeLists
    /\ code_layer_map \in LayerMaps

SpecLayers == InitLayers /\ [][resolve_layers]_vars

(***************************************************************************)
(* The layer loop of create_dxf on its own: any layer table, any set of    *)
(* needed layers, any order of iteration.                                  *)
(***************************************************************************)
InitColours ==
    /\ fxl = << >> /\ point_code_dict = EmptyDict /\ line_code_dict = EmptyDict
    /\ code_layer_map = EmptyDict /\ point_codes = {} /\ line_codes = {}
    /\ csv_rows = << >> /\ all_pts_map = None /\ survey = None
    /\ needed_pcodes = << >> /\ output = "none" /\ uncaught = ""
    /\ input_string = << >> /\ ret = None
    /\ pc = "create_dxf" /\ called = << >>
    /\ layers \in LayerTables
    /\ needed_layers \in NeededLayerSets
    /\ layer_color = py_int(7)
    /\ doc_layers = annotation_layers
    /\ unvisited = needed_layers

\* lines 359-367: one iteration of for layer in needed_layers
create_dxf_layer(layer) ==
    /\ pc = "create_dxf"
    /\ layer \in unvisited
    /\ layer_color' = next_layer_color(layer, layers, layer_color)
    /\ doc_layers' = doc_layers @@ (layer :> int_value(layer_color'))
    /\ unvisited' = unvisited \ {layer}
    /\ UNCHANGED <<pc, fxl, point_code_dict, line_code_dict, code_layer_map, point_codes,
                   line_codes, csv_rows, all_pts_map, needed_pcodes, survey,
                   needed_layers, called, output, uncaught, input_string, ret, layers>>

NextColours == \E layer \in needed_layers : create_dxf_layer(layer)

SpecColours == InitColours /\ [][NextColours]_vars

(***************************************************************************)
(* Vocabulary of the properties of process_code.                           *)
(***************************************************************************)
\* the digits a token ends in (empty when it ends in something else)
RECURSIVE TrailingDigitRun(_)
TrailingDigitRun(s) ==
    IF s = << >> \/ ~IsDigit(s[Len(s)]) THEN << >>
    ELSE TrailingDigitRun(SubSeq(s, 1, Len(s) - 1)) \o <<s[Len(s)]>>

\* the token without the digits it ends in
BaseOf(s) == SubSeq(s, 1, Len(s) - Len(TrailingDigitRun(s)))

\* the number a run of decimal digits writes, most significant digit first
RECURSIVE DecimalValue(_, _)
DecimalValue(ds, acc) ==
    IF ds = << >> THEN acc ELSE DecimalValue(Tail(ds), 10 * acc + DigitValue(Head(ds)))

\* the token grammar as the specification words it: letters, optionally
\* continued by letters/digits and ending in a letter, then optional digits
InGrammar(s) ==
    LET base == BaseOf(s)
    IN  /\ base # << >>
        /\ IsLetter(base[1])
        /\ IsLetter(base[Len(base)])
        /\ \A n \in 1..Len(base) : IsLetter(base[n]) \/ IsDigit(base[n])

Returned == pc = "returned"
Matched == re_match(input_string).matched
HasDigits == TrailingDigitRun(input_string) # << >>

\* C2 as claimed: for every token that matches the pattern and ends in digits,
\* the differentiator returned is the integer the digits write, whatever the kind.
C2_AnyKind ==
    (Returned /\ Matched /\ HasDigits)
        => ret.sequence = Some(DecimalValue(TrailingDigitRun(input_string), 0))

\* C2 as amended: for every token that matches the pattern and ends in digits, the
\* differentiator returned is the integer the digits write when the kind returned
\* is Line or Point; when the kind is Unknown the digits are dropped and the
\* placeholder differentiator 1 is returned with the placeholder code "sprl".
C2_DifferentiatorOfDeclaredCode ==
    (Returned /\ Matched /\ HasDigits) =>
        /\ ret.point_type \in {"Line", "Point"}
              => /\ ret.sequence = Some(DecimalValue(TrailingDigitRun(input_string), 0))
                 /\ ret.pcode = BaseOf(input_string)
        /\ ret.point_type = "Unknown" => ret.sequence = Some(1) /\ ret.pcode = sprl

C2_Witness ==
    /\ Returned
    /\ input_string = <<"k","b","3","0">>
    /\ kb \in line_codes
    /\ ret.point_type = "Line"
    /\ ret.sequence = Some(30)

\* C3 as claimed: for every token that matches the pattern and has no trailing
\* digits, the differentiator is -1 exactly when the kind returned is Line and is
\* unset when the kind returned is Point or Unknown.
C3_ByKind ==
    (Returned /\ Matched /\ ~HasDigits) =>
        /\ ret.sequence = Some(-1) <=> ret.point_type = "Line"
        /\ ret.point_type \in {"Point", "Unknown"} => ret.sequence = None

\* C3 as amended: for every token that matches the pattern and has no trailing
\* digits, the differentiator is -1 exactly when the base code is in the line
\* table (the kind is then Line, or Point when the point table holds it too), is
\* unset when the base code is in the point table only, and is the placeholder 1
\* (kind Unknown, code "sprl") when the base code is in neither table.
C3_ByLineTable ==
    (Returned /\ Matched /\ ~HasDigits) =>
        LET inLine == input_string \in line_codes
            inPoint == input_string \in point_codes
        IN  /\ ret.sequence = Some(-1) <=> inLine
            /\ inLine /\ ~inPoint => ret.point_type = "Line"
            /\ inLine /\ inPoint => ret.point_type = "Point"
            /\ ~inLine /\ inPoint => ret.point_type = "Point" /\ ret.sequence = None
            /\ ~inLine /\ ~inPoint => /\ ret.point_type = "Unknown"
                                      /\ ret.sequence = Some(1)
                                      /\ ret.pcode = sprl

C3_Witness ==
    /\ Returned
    /\ input_string = kb
    /\ kb \in line_codes /\ kb \in point_codes
    /\ ret.point_type = "Point"
    /\ ret.sequence = Some(-1)

\* C10 as claimed: every token of the grammar (one or more letters, optionally
\* continued by letters/digits and ending in a letter, then an optional run of
\* digits) is matched and split into base code = the token without its trailing
\* digits and differentiator = those digits, absent when there are none.
C10_GrammarMatched ==
    (Returned /\ InGrammar(input_string)) =>
        re_match(input_string) =
            [matched |-> TRUE,
             group1 |-> BaseOf(input_string),
             group2 |-> IF HasDigits THEN TrailingDigitRun(input_string) ELSE None]

\* C11: for every token the pattern matches, the kind returned is Point when the
\* base code is in the point table (whether or not the line table holds it too),
\* Line when it is in the line table only, and Unknown when it is in neither.
C11_PointOverridesLine ==
    (Returned /\ Matched) =>
        LET base == BaseOf(input_string)
        IN  ret.point_type = IF base \in point_codes THEN "Point"
                             ELSE IF base \in line_codes THEN "Line"
                             ELSE "Unknown"

C11_Witness ==
    /\ Returned
    /\ input_string = kb3
    /\ kb \in line_codes /\ kb \in point_codes
    /\ ret.point_type = "Point"
    /\ ret.pcode = kb

(***************************************************************************)
(* Vocabulary of the properties of get_layer_from_pcode.                   *)
(***************************************************************************)
Resolved == pc = "create_dxf"

\* a layer with its two companions
Family(layer) == {layer, "attrib_" \o layer, "points_" \o layer}

\* the layer a needed code resolves to
LayerOf(pcode) ==
    IF pcode \in DOMAIN code_layer_map THEN code_layer_map[pcode] ELSE "Spare"

\* C6 as claimed: for every needed code the layer set holds exactly one of the
\* code's mapped layer and "Spare", with the companions of that one: never
\* neither, never both.
C6_ExactlyOne ==
    Resolved =>
        \A pcode \in Range(needed_pcodes) :
            LET candidates == {LayerOf(pcode), "Spare"} \cap needed_layers
            IN  /\ Cardinality(candidates) = 1
                /\ \A layer \in candidates : Family(layer) \subseteq needed_layers

\* C6 as amended: for every needed code the layer set holds the layer the code
\* resolves to (its mapped layer, "Spare" when it is unmapped) with both
\* companions, never neither; "Spare" is in the set as well exactly when some
\* needed code is unmapped or mapped to "Spare", so a list that mixes mapped and
\* unmapped codes holds both.
C6_ResolvedLayerPresent ==
    Resolved =>
        /\ \A pcode \in Range(needed_pcodes) : Family(LayerOf(pcode)) \subseteq needed_layers
        /\ "Spare" \in needed_layers
              <=> \E pcode \in Range(needed_pcodes) : LayerOf(pcode) = "Spare"

C6_Witness ==
    /\ Resolved
    /\ needed_pcodes = <<kb, sprl>>
    /\ DOMAIN code_layer_map = {kb} /\ code_layer_map[kb] = "Kerb"
    /\ {"Kerb", "Spare"} \subseteq needed_layers

\* C7: the set returned is exactly {"Points"} united with the family
\* {L, "attrib_" + L, "points_" + L} of every needed code, L being the code's
\* mapped layer or "Spare" when the map has no key for it; nothing else is in
\* it, "Points" always is, and an unmapped code yields "Spare", not a failure.
C7_ExactLayerSet ==
    Resolved =>
        /\ needed_layers =
              {"Points"} \cup UNION { Family(LayerOf(pcode)) : pcode \in Range(needed_pcodes) }
        /\ "Points" \in needed_layers

C7_Witness ==
    /\ Resolved
    /\ needed_pcodes = <<sprl, kb, sprl>>
    /\ DOMAIN code_layer_map = {kb} /\ code_layer_map[kb] = "attrib_Kerb"
    /\ needed_layers = {"Points", "Spare", "attrib_Spare", "points_Spare",
                        "attrib_Kerb", "attrib_attrib_Kerb", "points_attrib_Kerb"}

(***************************************************************************)
(* Vocabulary of the properties of the run.                                *)
(***************************************************************************)
\* positions of the rows read so far that carry a code
CodeRows == { n \in 1..Len(csv_rows) : csv_rows[n].Point_code # << >> }

\* what process_code makes of the code of each row read so far
RECURSIVE ResolutionsTo(_)
ResolutionsTo(n) ==
    IF n = 0 THEN << >>
    ELSE Append(ResolutionsTo(n - 1),
                process_code(csv_rows[n].Point_code, line_codes, point_codes))
Resolutions == ResolutionsTo(Len(csv_rows))

\* every bucket of index m holds exactly the rows that resolved to its key, once
\* each and in input order, and every such row has its bucket
BucketsExact(m) ==
    LET res == Resolutions
    IN  /\ \A n \in CodeRows :
              /\ res[n].pcode \in DOMAIN m[res[n].point_type]
              /\ res[n].sequence \in DOMAIN m[res[n].point_type][res[n].pcode]
        /\ \A point_type \in DOMAIN m :
              \A code \in DOMAIN m[point_type] :
                 \A sequence \in DOMAIN m[point_type][code] :
                    LET list == m[point_type][code][sequence]
                        members == { n \in CodeRows : /\ res[n].point_type = point_type
                                                      /\ res[n].pcode = code
                                                      /\ res[n].sequence = sequence }
                    IN  /\ Len(list) = Cardinality(members)
                        /\ Len(list) > 0
                        /\ \A i \in 1..Len(list) :
                              /\ list[i].PointNumber \in members
                              /\ list[i].Point_code = code
                              /\ \A j \in 1..Len(list) :
                                    i < j => list[i].PointNumber < list[j].PointNumber

\* C1: each bucket (point_type, base_code, sequence) of the index get_survey
\* builds and returns holds exactly the code-bearing rows that resolved to that
\* key, once each and in input row order: N such rows give a list of length N.
C1_BucketsInInputOrder ==
    /\ all_pts_map # None => BucketsExact(all_pts_map)
    /\ survey # None => survey = all_pts_map

C1_Witness ==
    /\ survey # None
    /\ kb \in line_codes
    /\ Len(csv_rows) = 3
    /\ csv_rows[1].Point_code = kb3 /\ csv_rows[2].Point_code = kb
    /\ csv_rows[3].Point_code = kb3
    /\ Len(survey.Line[kb][Some(3)]) = 2
    /\ survey.Line[kb][Some(3)][1].PointNumber = 1
    /\ survey.Line[kb][Some(3)][2].PointNumber = 3

\* rows whose token matches the pattern but whose base code is in neither table
UndeclaredRows ==
    { n \in CodeRows :
        LET match == re_match(csv_rows[n].Point_code)
        IN  match.matched /\ match.group1 \notin line_codes \cup point_codes }

LayersResolved == pc \in {"create_dxf", "exit"} /\ uncaught # "TypeError"

\* C4 as claimed: a row whose token matches but whose base code is undeclared is
\* classified Unknown with its raw base code, bucketed under Unknown by that
\* code, the raw base code is added to the registry, and layer resolution puts
\* the Spare family in the layer set.
C4_RawBaseCode ==
    \A n \in UndeclaredRows :
        LET base == re_match(csv_rows[n].Point_code).group1
            r == process_code(csv_rows[n].Point_code, line_codes, point_codes)
        IN  /\ r.point_type = "Unknown"
            /\ r.pcode = base
            /\ base \in DOMAIN all_pts_map.Unknown
            /\ base \in Range(needed_pcodes)
            /\ LayersResolved => Family("Spare") \subseteq needed_layers

\* C4 as amended: such a row is classified Unknown with the placeholder code
\* "sprl" and differentiator 1 (the raw base code is dropped), bucketed under
\* Unknown/"sprl"/1, "sprl" is the code added to the registry (the raw base code
\* is not), and layer resolution puts in the layer set the family of the layer
\* the library maps "sprl" to, the Spare family when it maps "sprl" to nothing.
C4_PlaceholderCode ==
    \A n \in UndeclaredRows :
        LET base == re_match(csv_rows[n].Point_code).group1
        IN  /\ sprl \in DOMAIN all_pts_map.Unknown
            /\ Some(1) \in DOMAIN all_pts_map.Unknown[sprl]
            /\ \E i \in DOMAIN all_pts_map.Unknown[sprl][Some(1)] :
                  all_pts_map.Unknown[sprl][Some(1)][i] =
                     [PointNumber |-> n, Point_code |-> sprl, Sequence |-> <<"1">>]
            /\ sprl \in Range(needed_pcodes)
            /\ base # sprl => base \notin Range(needed_pcodes)
            /\ LayersResolved => Family(LayerOf(sprl)) \subseteq needed_layers

C4_Witness ==
    /\ LayersResolved
    /\ \E n \in UndeclaredRows : csv_rows[n].Point_code = xyz123
    /\ sprl \notin DOMAIN code_layer_map
    /\ needed_pcodes = <<sprl>>
    /\ needed_layers = {"Points", "Spare", "attrib_Spare", "points_Spare"}

\* C5: when the survey file cannot be opened, get_survey returns no index and
\* the run then invokes none of set_dxf_view, get_layer_from_pcode, create_dxf;
\* it ends without a crash and without an output file.
C5_CleanAbort ==
    (pc = "exit" /\ survey = None) =>
        /\ Range(called) \cap {"set_dxf_view", "get_layer_from_pcode", "create_dxf"} = {}
        /\ uncaught = ""
        /\ output = "none"

\* first point or line feature definition of the document that declares a code
Declarations(code) ==
    { n \in 1..Len(fxl) :
        /\ fxl[n].tag \in {"PointFeatureDefinition", "LineFeatureDefinition"}
        /\ fxl[n].attrib.Code = code }
FirstDeclaration(code) ==
    fxl[CHOOSE n \in Declarations(code) : \A k \in Declarations(code) : n <= k]

Parsed == pc = "get_codes_returned"

\* C8 as claimed: when get_codes returns, every code of the point table or of the line
\* table has an entry in code_to_layer_map equal to the Layer attribute that
\* table holds for the code, also for a code declared in both tables.
C8_LayerOfEachTable ==
    Parsed =>
        /\ \A code \in DOMAIN point_code_dict :
              /\ code \in DOMAIN code_layer_map
              /\ code_layer_map[code] = point_code_dict[code].Layer
        /\ \A code \in DOMAIN line_code_dict :
              /\ code \in DOMAIN code_layer_map
              /\ code_layer_map[code] = line_code_dict[code].Layer

\* C8 as amended: when get_codes returns, every code of the point table or of the line
\* table has an entry in code_to_layer_map, equal to the Layer attribute of the
\* first declaration of the code in document order; so it equals the Layer the
\* table holds when the code is in one table only (declared once or more), and
\* for a code in both tables it equals the Layer held by one of the two.
C8_LayerOfFirstDeclaration ==
    Parsed =>
        \A code \in DOMAIN point_code_dict \cup DOMAIN line_code_dict :
            /\ code \in DOMAIN code_layer_map
            /\ code_layer_map[code] = FirstDeclaration(code).attrib.Layer
            /\ code \notin DOMAIN line_code_dict
                  => code_layer_map[code] = point_code_dict[code].Layer
            /\ code \notin DOMAIN point_code_dict
                  => code_layer_map[code] = line_code_dict[code].Layer
            /\ code \in DOMAIN point_code_dict \cap DOMAIN line_code_dict
                  => code_layer_map[code] \in
                        {point_code_dict[code].Layer, line_code_dict[code].Layer}

C8_Witness ==
    /\ Parsed
    /\ kb \in DOMAIN point_code_dict \cap DOMAIN line_code_dict
    /\ point_code_dict[kb].Layer = "Kerb"
    /\ line_code_dict[kb].Layer = "Marks"
    /\ fxl[1] = [tag |-> "LineFeatureDefinition", attrib |-> [Code |-> kb, Layer |-> "Marks"]]
    /\ code_layer_map[kb] = "Marks"

\* the registry lists every resolved code of the rows read so far once, in order
\* of first occurrence
RegistryInOrder ==
    LET res == Resolutions
        first(pcode) == CHOOSE n \in CodeRows :
                            /\ res[n].pcode = pcode
                            /\ \A k \in CodeRows : res[k].pcode = pcode => n <= k
    IN  /\ Range(needed_pcodes) = { res[n].pcode : n \in CodeRows }
        /\ \A i, j \in 1..Len(needed_pcodes) :
              i < j => /\ needed_pcodes[i] # needed_pcodes[j]
                       /\ first(needed_pcodes[i]) < first(needed_pcodes[j])

\* a step leaves the registry alone or is get_survey appending the new code of
\* the row it has just read
RegistryStep ==
    \/ needed_pcodes' = needed_pcodes
    \/ /\ pc = "get_survey_rows"
       /\ Len(csv_rows') = Len(csv_rows) + 1
       /\ LET pcode == process_code(csv_rows'[Len(csv_rows')].Point_code,
                                    line_codes, point_codes).pcode
          IN  /\ pcode \notin Range(needed_pcodes)
              /\ needed_pcodes' = Append(needed_pcodes, pcode)

\* C9: after any sequence of rows the registry holds every distinct resolved base
\* code of the code-bearing rows read so far exactly once, in order of first
\* occurrence; a further row leaves it unchanged or appends one new code at its
\* end, and no step outside get_survey changes it.
C9_Registry == [](RegistryInOrder) /\ [][RegistryStep]_vars

C9_Witness ==
    /\ pc = "exit"
    /\ Len(csv_rows) = 3
    /\ csv_rows[1].Point_code = kb3 /\ csv_rows[2].Point_code = xyz123
    /\ csv_rows[3].Point_code = kb
    /\ kb \in line_codes
    /\ needed_pcodes = <<kb, sprl>>

(***************************************************************************)
(* Vocabulary of the properties of the layer loop of create_dxf.           *)
(***************************************************************************)
\* the needed layers the loop has created so far
LoopAdded == needed_layers \ unvisited

FixedLayers == {"0", "Points"}

\* the index the RGB table gives for a colour key, 7 when it has none
IndexOf(key) ==
    IF key \in DOMAIN MAP_RGB_TO_CAD THEN DecimalValue(MAP_RGB_TO_CAD[key], 0) ELSE 7

\* the colour a layer has by itself: 7 for a fixed layer and for a layer missing
\* from the layer table, else the index of its own colour key
OwnColour(layer) ==
    IF layer \in FixedLayers \/ layer \notin DOMAIN layers THEN 7
    ELSE IndexOf(layers[layer].Color)

\* C12 as claimed: whatever the needed-layer set and the order of iteration, "0"
\* and "Points" are created with colour 7, every other layer found in the layer
\* table with the index of its own colour key (7 when the key has none), every
\* layer missing from the table with 7; the colour of a layer is a function of
\* the layer and the table alone, not of the layer processed before it.
C12_ColourOfOwnLayer ==
    \A layer \in LoopAdded : doc_layers[layer] = OwnColour(layer)

\* What the loop does: the claim holds for every layer but a fixed layer found
\* in the layer table, which is created with the value layer_color was left
\* with: 7, or the index of a layer visited earlier.
LayerColoursAsBuilt ==
    \A layer \in LoopAdded :
        IF layer \in FixedLayers /\ layer \in DOMAIN layers
        THEN doc_layers[layer] \in
                {7} \cup { OwnColour(other) : other \in LoopAdded \ {layer} }
        ELSE doc_layers[layer] = OwnColour(layer)

\* "Kerb" (red, index 1) was visited before "Points", both in the layer table
C12_Witness ==
    /\ {"Kerb", "Points"} \subseteq DOMAIN layers
    /\ layers["Kerb"].Color = "FFFF0000"
    /\ {"Kerb", "Points"} \subseteq LoopAdded
    /\ doc_layers["Kerb"] = 1
    /\ doc_layers["Points"] = 1
====
